---- MODULE Spec2Model ----
(***************************************************************************)
(* Model of the WhatsApp history store (src/src/web/history-store.ts):     *)
(* the persisted tables conversations / messages / participants, the       *)
(* lifecycle operations initialize / close, the ingestion operation        *)
(* storeMessage and the read operations queryMessages / exportMessages /   *)
(* getStats.                                                               *)
(*                                                                         *)
(* SQL NULL and a JavaScript undefined/null argument are the empty tuple   *)
(* Null; a present value v of a nullable field is the one-element tuple    *)
(* Some(v).  NOT NULL columns hold the bare value.                         *)
(*                                                                         *)
(* Five specifications share the state and the operators:                  *)
(*   Spec           serial callers, each operation one step: lifecycle,    *)
(*                  ingestion, reads under the empty and one other filter; *)
(*   SpecRead       the read path: a store filled with messages, queried   *)
(*                  and exported under every filter;                       *)
(*   SpecStatement  storeMessage one SQL statement per step, two callers   *)
(*                  interleaving, statements failing;                      *)
(*   SpecRetry      storeMessage one SQL statement per step, one caller    *)
(*                  who repeats calls that returned or threw, as time      *)
(*                  passes;                                                *)
(*   SpecCli        the export-history action of the CLI                   *)
(*                  (src/src/cli/whatsapp-cli.ts) as the caller of a store *)
(*                  of its own.                                            *)
(***************************************************************************)
EXTENDS Integers, Sequences, FiniteSets, TLC

VARIABLES
    db,             \* this.db: "null" or "open" (the DatabaseSync handle)
    openHandles,    \* number of engine handles opened on the file and not closed
    conversations,  \* rows of table conversations (persisted file)
    messages,       \* rows of table messages
    participants,   \* rows of table participants
    clock,          \* the value Date.now() returns
    ret,            \* the call in progress at the caller: its operation, arguments and outcome
    lastIngested,   \* history: per message key, the message arguments of the latest successful storeMessage
    lastTimestamp,  \* history: per conversation, the timestamp of the latest successful storeMessage
    nCalls,         \* number of storeMessage calls made on an open store
    pc,             \* statement-level callers: idle, running, returned or threw
    call,           \* statement-level callers: the call in progress: its arguments, its Date.now(),
                    \* the statement it is about to execute and the statements it has executed
    cli             \* the export-history action of the CLI: its position, its options and
                    \* the store calls it has made

vars == <<db, openHandles, conversations, messages, participants, clock, ret,
          lastIngested, lastTimestamp, nCalls, pc, call, cli>>

tables == <<conversations, messages, participants>>

-----------------------------------------------------------------------------
\* Bounds of the model.

\* message timestamps are 1..MaxTs (epoch milliseconds)
MaxTs == 2
\* at most MaxCalls storeMessage calls are made in one behaviour
MaxCalls == 2

-----------------------------------------------------------------------------
\* Values.

Null == <<>>
Some(v) == <<v>>

NotInitialized == "Database not initialized"

ConversationJids == {"alice@s.whatsapp.net", "family@g.us"}
MessageIds == {"m1", "m2"}
ChatTypes == {"direct", "group"}
Timestamps == 1..MaxTs
DisplayNames == {Null, Some("Alice"), Some("Family")}
ParticipantLists ==
    { Null,
      Some(<<"p1@s.whatsapp.net">>),
      Some(<<"p2@s.whatsapp.net", "p1@s.whatsapp.net", "p2@s.whatsapp.net">>) }

\* The message-content arguments of storeMessage, in two shapes: every nullable
\* or optional argument absent, and every one present.
PlainContent ==
    [ senderJid |-> Null, senderE164 |-> Null, senderName |-> Null,
      body |-> "hello", isFromMe |-> TRUE,
      replyToId |-> Null, mediaPath |-> Null, mediaType |-> Null,
      location |-> Null, rawMessage |-> "raw1", accountId |-> "acc1" ]
RichContent ==
    [ senderJid |-> Some("bob@s.whatsapp.net"), senderE164 |-> Some("+15550001"),
      senderName |-> Some("Bob"),
      body |-> "see you", isFromMe |-> FALSE,
      replyToId |-> Some("m0"), mediaPath |-> Some("/media/a.jpg"),
      mediaType |-> Some("image/jpeg"),
      location |-> Some([lat |-> 48, lon |-> 2]), rawMessage |-> "raw2",
      accountId |-> "acc2" ]
Contents == {PlainContent, RichContent}

\* storeMessage's params object.
MakeParams(mid, jid, ct, ts, dn, gp, c) ==
    [ messageId |-> mid, conversationJid |-> jid, chatType |-> ct,
      senderJid |-> c.senderJid, senderE164 |-> c.senderE164,
      senderName |-> c.senderName, body |-> c.body, timestamp |-> ts,
      isFromMe |-> c.isFromMe, replyToId |-> c.replyToId,
      mediaPath |-> c.mediaPath, mediaType |-> c.mediaType,
      location |-> c.location, rawMessage |-> c.rawMessage,
      accountId |-> c.accountId, displayName |-> dn, groupParticipants |-> gp ]

\* The calls made: three families, each varying the arguments one statement of
\* storeMessage reads and holding the others fixed.
MessageParams ==
    { MakeParams(mid, jid, "direct", ts, Null, Null, c) :
        mid \in MessageIds, jid \in ConversationJids, ts \in Timestamps, c \in Contents }
ConversationParams ==
    { MakeParams("m1", jid, ct, ts, dn, Null, PlainContent) :
        jid \in ConversationJids, ct \in ChatTypes, ts \in Timestamps, dn \in DisplayNames }
ParticipantParams ==
    { MakeParams("m1", jid, ct, 1, Null, gp, PlainContent) :
        jid \in ConversationJids, ct \in ChatTypes, gp \in ParticipantLists }
\* The ingestion-centred specification takes the earliest and the latest timestamp.
EdgeTimestamps == {1, MaxTs}
Params ==
    { p \in MessageParams \cup ConversationParams : p.timestamp \in EdgeTimestamps }
        \cup ParticipantParams

\* JSON.stringify(params.rawMessage)
JsonStringify(raw) ==
    CASE raw = "raw1" -> "{\"key\":{\"id\":\"raw1\"}}"
      [] raw = "raw2" -> "{\"key\":{\"id\":\"raw2\"},\"message\":{}}"

\* x ?? null: an undefined argument is bound as SQL NULL
OrNull(x) == IF x = Null THEN Null ELSE x

\* SQL COALESCE(a, b)
Coalesce(a, b) == IF a # Null THEN a ELSE b

-----------------------------------------------------------------------------
\* The three statements of storeMessage, as functions of a table.

\* Faulty upserts, which C2, C3 and C4 must reject: one that leaves last_message_at
\* as it is on conflict, one that keeps the larger timestamp, one that overwrites
\* display_name with the incoming value, NULL included.
UpsertConversationKeepTimestamp(convs, p, now) ==
    IF \E c \in convs : c.jid = p.conversationJid
    THEN { IF c.jid = p.conversationJid
           THEN [c EXCEPT !.display_name = Coalesce(OrNull(p.displayName), c.display_name)]
           ELSE c : c \in convs }
    ELSE convs \cup
         { [ jid |-> p.conversationJid, chat_type |-> p.chatType,
             display_name |-> OrNull(p.displayName),
             last_message_at |-> p.timestamp, created_at |-> now ] }
UpsertConversationMaxTimestamp(convs, p, now) ==
    IF \E c \in convs : c.jid = p.conversationJid
    THEN { IF c.jid = p.conversationJid
           THEN [c EXCEPT !.display_name = Coalesce(OrNull(p.displayName), c.display_name),
                          !.last_message_at = IF p.timestamp > @ THEN p.timestamp ELSE @]
           ELSE c : c \in convs }
    ELSE convs \cup
         { [ jid |-> p.conversationJid, chat_type |-> p.chatType,
             display_name |-> OrNull(p.displayName),
             last_message_at |-> p.timestamp, created_at |-> now ] }
UpsertConversationOverwriteName(convs, p, now) ==
    IF \E c \in convs : c.jid = p.conversationJid
    THEN { IF c.jid = p.conversationJid
           THEN [c EXCEPT !.display_name = OrNull(p.displayName),
                          !.last_message_at = p.timestamp]
           ELSE c : c \in convs }
    ELSE convs \cup
         { [ jid |-> p.conversationJid, chat_type |-> p.chatType,
             display_name |-> OrNull(p.displayName),
             last_message_at |-> p.timestamp, created_at |-> now ] }

\* A faulty upsert, which C22 must reject: the conflict branch also takes the
\* chat_type of the call.
UpsertConversationUpdateChatType(convs, p, now) ==
    IF \E c \in convs : c.jid = p.conversationJid
    THEN { IF c.jid = p.conversationJid
           THEN [c EXCEPT !.chat_type = p.chatType,
                          !.display_name = Coalesce(OrNull(p.displayName), c.display_name),
                          !.last_message_at = p.timestamp]
           ELSE c : c \in convs }
    ELSE convs \cup
         { [ jid |-> p.conversationJid, chat_type |-> p.chatType,
             display_name |-> OrNull(p.displayName),
             last_message_at |-> p.timestamp, created_at |-> now ] }

\* INSERT INTO conversations ... ON CONFLICT(jid) DO UPDATE SET
\*   display_name = COALESCE(excluded.display_name, display_name),
\*   last_message_at = excluded.last_message_at
UpsertConversation(convs, p, now) ==
    IF \E c \in convs : c.jid = p.conversationJid
    THEN { IF c.jid = p.conversationJid
           THEN [c EXCEPT !.display_name = Coalesce(OrNull(p.displayName), c.display_name),
                          !.last_message_at = p.timestamp]
           ELSE c : c \in convs }
    ELSE convs \cup
         { [ jid |-> p.conversationJid, chat_type |-> p.chatType,
             display_name |-> OrNull(p.displayName),
             last_message_at |-> p.timestamp, created_at |-> now ] }

\* A faulty row, which C13 must reject: the longitude is never bound.
MessageRowWithoutLongitude(p, now) ==
    [ message_id |-> p.messageId, conversation_jid |-> p.conversationJid,
      sender_jid |-> p.senderJid, sender_e164 |-> p.senderE164,
      sender_name |-> p.senderName, body |-> p.body, timestamp |-> p.timestamp,
      is_from_me |-> IF p.isFromMe THEN 1 ELSE 0,
      reply_to_id |-> OrNull(p.replyToId),
      media_path |-> OrNull(p.mediaPath),
      media_type |-> OrNull(p.mediaType),
      location_lat |-> IF p.location # Null THEN Some(p.location[1].lat) ELSE Null,
      location_lon |-> Null,
      raw_message |-> JsonStringify(p.rawMessage),
      account_id |-> p.accountId, created_at |-> now ]

\* The row insertMsg.run(...) binds.
MessageRow(p, now) ==
    [ message_id |-> p.messageId, conversation_jid |-> p.conversationJid,
      sender_jid |-> p.senderJid, sender_e164 |-> p.senderE164,
      sender_name |-> p.senderName, body |-> p.body, timestamp |-> p.timestamp,
      is_from_me |-> IF p.isFromMe THEN 1 ELSE 0,
      reply_to_id |-> OrNull(p.replyToId),
      media_path |-> OrNull(p.mediaPath),
      media_type |-> OrNull(p.mediaType),
      location_lat |-> IF p.location # Null THEN Some(p.location[1].lat) ELSE Null,
      location_lon |-> IF p.location # Null THEN Some(p.location[1].lon) ELSE Null,
      raw_message |-> JsonStringify(p.rawMessage),
      account_id |-> p.accountId, created_at |-> now ]

\* A faulty message write, which C1 must reject: a plain insert that keeps the old row.
InsertMessageKeepingOld(msgs, p, now) == msgs \cup { MessageRow(p, now) }

\* INSERT OR REPLACE INTO messages ..., PRIMARY KEY (conversation_jid, message_id)
InsertOrReplaceMessage(msgs, p, now) ==
    { m \in msgs : ~(m.conversation_jid = p.conversationJid /\ m.message_id = p.messageId) }
        \cup { MessageRow(p, now) }

\* A faulty participant write, which C5 must reject: INSERT OR REPLACE.
InsertOrReplaceParticipant(parts, jid, participantJid, now) ==
    { r \in parts : ~(r.conversation_jid = jid /\ r.participant_jid = participantJid) }
        \cup { [ conversation_jid |-> jid, participant_jid |-> participantJid,
                 participant_e164 |-> Null, joined_at |-> now ] }

\* INSERT OR IGNORE INTO participants ..., PRIMARY KEY (conversation_jid, participant_jid)
InsertOrIgnoreParticipant(parts, jid, participantJid, now) ==
    IF \E r \in parts : r.conversation_jid = jid /\ r.participant_jid = participantJid
    THEN parts
    ELSE parts \cup { [ conversation_jid |-> jid, participant_jid |-> participantJid,
                         participant_e164 |-> Null, joined_at |-> now ] }

-----------------------------------------------------------------------------
\* storeMessage's try block, statement by statement.

\* A faulty order, which C8 must reject: the message is written first.
MessageFirstOrder == <<"insertMsg", "upsertConv", "insertParticipants">>

\* The statements in the order the try block executes them.
StatementOrder == <<"upsertConv", "insertMsg", "insertParticipants">>

\* if (params.chatType === "group" && params.groupParticipants): the list looped over
ParticipantsToStore(p) ==
    IF p.chatType = "group" /\ p.groupParticipants # Null THEN p.groupParticipants[1] ELSE <<>>

\* A position <<i, k>> is the statement about to be executed: StatementOrder[i],
\* and for the participant loop its k-th iteration.  End: the try block is done.
End == <<0, 0>>

\* Number of statement executions StatementOrder[i] stands for.
Iterations(i, p) ==
    IF StatementOrder[i] = "insertParticipants" THEN Len(ParticipantsToStore(p)) ELSE 1

\* The first position at or after statement i.
RECURSIVE PositionFrom(_, _)
PositionFrom(i, p) ==
    IF i > Len(StatementOrder) THEN End
    ELSE IF Iterations(i, p) > 0 THEN <<i, 1>>
    ELSE PositionFrom(i + 1, p)

\* The position after the statement at pos has succeeded.
NextPosition(pos, p) ==
    IF pos[2] < Iterations(pos[1], p) THEN <<pos[1], pos[2] + 1>>
    ELSE PositionFrom(pos[1] + 1, p)

\* The tables after the statement at pos; T is [conversations, messages, participants].
Exec(pos, T, p, now) ==
    CASE StatementOrder[pos[1]] = "upsertConv" ->
            [T EXCEPT !.conversations = UpsertConversation(T.conversations, p, now)]
      [] StatementOrder[pos[1]] = "insertMsg" ->
            [T EXCEPT !.messages = InsertOrReplaceMessage(T.messages, p, now)]
      [] StatementOrder[pos[1]] = "insertParticipants" ->
            [T EXCEPT !.participants =
                InsertOrIgnoreParticipant(T.participants, p.conversationJid,
                                          ParticipantsToStore(p)[pos[2]], now)]

\* The tables after every statement from pos on has succeeded.
RECURSIVE RunFrom(_, _, _, _)
RunFrom(pos, T, p, now) ==
    IF pos = End THEN T
    ELSE RunFrom(NextPosition(pos, p), Exec(pos, T, p, now), p, now)

Tables == [conversations |-> conversations, messages |-> messages,
           participants |-> participants]

-----------------------------------------------------------------------------
\* Callers.  ret.op = "none": no call in progress; otherwise ret is the call last
\* made, with its arguments, the error it threw (Null: none) and its return value.

NoCall == [op |-> "none", args |-> Null, err |-> Null, value |-> Null]
Outcome(op, args, err, value) == [op |-> op, args |-> args, err |-> err, value |-> value]

Callers == {1, 2}
Idle == ret.op = "none" /\ \A c \in Callers : pc[c] = "idle"

\* Faulty guards, which C7 and C6 must reject: initialize without its early
\* return, and operations without their not-initialized test.
AlreadyOpenNever(handle) == FALSE
NotOpenNever(handle) == FALSE

\* if (this.db) return;
AlreadyOpen(handle) == handle # "null"

\* if (!this.db) throw new Error("Database not initialized");
NotOpen(handle) == handle = "null"

\* A faulty schema statement, which C20 must reject: the table is created anew.
CreateTableAnew(rows) == {}

\* CREATE TABLE IF NOT EXISTS: an existing table keeps its rows.
CreateTableIfNotExists(rows) == rows

MessageKeys == ConversationJids \X MessageIds

\* The message arguments of a storeMessage call (what the message row is written from).
MessageArgs(p) ==
    [ messageId |-> p.messageId, conversationJid |-> p.conversationJid,
      senderJid |-> p.senderJid, senderE164 |-> p.senderE164,
      senderName |-> p.senderName, body |-> p.body, timestamp |-> p.timestamp,
      isFromMe |-> p.isFromMe, replyToId |-> p.replyToId, mediaPath |-> p.mediaPath,
      mediaType |-> p.mediaType, location |-> p.location,
      rawMessage |-> p.rawMessage, accountId |-> p.accountId ]

\* The export-history action before it is invoked.
CliIdle == [pc |-> "idle", opts |-> Null, calls |-> <<>>]

Init ==
    /\ db = "null"
    /\ openHandles = 0
    /\ conversations = {}
    /\ messages = {}
    /\ participants = {}
    /\ clock = 1
    /\ ret = NoCall
    /\ lastIngested = [k \in MessageKeys |-> Null]
    /\ lastTimestamp = [j \in ConversationJids |-> Null]
    /\ nCalls = 0
    /\ pc = [c \in Callers |-> "idle"]
    /\ call = [c \in Callers |-> Null]
    /\ cli = CliIdle

\* Time passes between calls.  Only the order of the values Date.now() returns
\* matters, so the clock advances by one, and only once a call has read its
\* present value and a further call can still follow.
Tick ==
    /\ ret.op = "none"
    /\ nCalls < MaxCalls
    /\ \/ \E m \in messages : m.created_at = clock
       \/ \E c \in Callers : call[c] # Null /\ call[c].now = clock
    /\ clock' = clock + 1
    /\ UNCHANGED <<db, openHandles, tables, ret, lastIngested, lastTimestamp, nCalls, pc, call, cli>>

\* initialize()
Initialize ==
    /\ Idle
    /\ IF AlreadyOpen(db)
       THEN UNCHANGED <<db, openHandles, tables>>
       ELSE /\ db' = "open"
            /\ openHandles' = openHandles + 1
            /\ conversations' = CreateTableIfNotExists(conversations)
            /\ messages' = CreateTableIfNotExists(messages)
            /\ participants' = CreateTableIfNotExists(participants)
    /\ ret' = Outcome("initialize", Null, Null, Null)
    /\ UNCHANGED <<clock, lastIngested, lastTimestamp, nCalls, pc, call, cli>>

\* close()
Close ==
    /\ Idle
    /\ IF db # "null"
       THEN /\ db' = "null"
            /\ openHandles' = openHandles - 1
       ELSE UNCHANGED <<db, openHandles>>
    /\ ret' = Outcome("close", Null, Null, Null)
    /\ UNCHANGED <<tables, clock, lastIngested, lastTimestamp, nCalls, pc, call, cli>>

\* storeMessage(params), every statement succeeding
StoreMessage(p) ==
    /\ Idle
    /\ IF NotOpen(db)
       THEN /\ ret' = Outcome("storeMessage", Null, Some(NotInitialized), Null)
            /\ UNCHANGED <<tables, lastIngested, lastTimestamp, nCalls>>
       ELSE /\ nCalls < MaxCalls
            /\ LET now == clock
                    T == RunFrom(PositionFrom(1, p), Tables, p, now)
               IN /\ conversations' = T.conversations
                  /\ messages' = T.messages
                  /\ participants' = T.participants
            /\ ret' = Outcome("storeMessage", p, Null, Null)
            /\ lastIngested' = [lastIngested EXCEPT
                                   ![<<p.conversationJid, p.messageId>>] = Some(MessageArgs(p))]
            /\ lastTimestamp' = [lastTimestamp EXCEPT ![p.conversationJid] = Some(p.timestamp)]
            /\ nCalls' = nCalls + 1
    /\ UNCHANGED <<db, openHandles, clock, pc, call, cli>>

-----------------------------------------------------------------------------
\* queryMessages / exportMessages / getStats.

\* new Date(iso).getTime(), for the ISO 8601 strings used as filter bounds.
IsoDates ==
    { [iso |-> "1970-01-01", ms |-> 0],
      [iso |-> "1970-01-01T00:00:00.001Z", ms |-> 1],
      [iso |-> "1970-01-01T00:00:00.002Z", ms |-> 2],
      [iso |-> "1970-01-01T00:00:00.003Z", ms |-> 3] }
ParseDate(iso) == (CHOOSE d \in IsoDates : d.iso = iso).ms

\* JavaScript truthiness of an optional string / an optional number.
TruthyString(x) == x # Null /\ x[1] # ""
TruthyNumber(x) == x # Null /\ x[1] # 0

\* A faulty WHERE clause, which C9 must reject: exclusive date bounds.
WhereExclusive(m, f) ==
    /\ TruthyString(f.from) => m.timestamp > ParseDate(f.from[1])
    /\ TruthyString(f.to) => m.timestamp < ParseDate(f.to[1])
    /\ TruthyString(f.conversationJid) => m.conversation_jid = f.conversationJid[1]
    /\ TruthyString(f.accountId) => m.account_id = f.accountId[1]

\* The WHERE clause queryMessages builds: its conditions joined by AND.
Where(m, f) ==
    /\ TruthyString(f.from) => m.timestamp >= ParseDate(f.from[1])
    /\ TruthyString(f.to) => m.timestamp <= ParseDate(f.to[1])
    /\ TruthyString(f.conversationJid) => m.conversation_jid = f.conversationJid[1]
    /\ TruthyString(f.accountId) => m.account_id = f.accountId[1]

\* ORDER BY timestamp ASC: every arrangement of the rows with ascending
\* timestamps (the engine leaves the order of equal timestamps open).
OrderByTimestamp(rows) ==
    { s \in [1..Cardinality(rows) -> rows] :
        /\ \A i, j \in 1..Cardinality(rows) : i # j => s[i] # s[j]
        /\ \A i, j \in 1..Cardinality(rows) : i < j => s[i].timestamp <= s[j].timestamp }

\* LIMIT n, added only when filter.limit is truthy.
Limit(rows, f) ==
    IF TruthyNumber(f.limit) /\ f.limit[1] < Len(rows)
    THEN SubSeq(rows, 1, f.limit[1])
    ELSE rows

\* The results stmt.all(...) can give.
QueryResults(msgs, f) ==
    { Limit(s, f) : s \in OrderByTimestamp({ m \in msgs : Where(m, f) }) }

\* The entry conv.messages.push(...) appends.
ExportedMessage(m) ==
    [ messageId |-> m.message_id, senderJid |-> m.sender_jid,
      senderE164 |-> m.sender_e164, senderName |-> m.sender_name,
      body |-> m.body, timestamp |-> m.timestamp,
      isFromMe |-> (m.is_from_me # 0),
      replyToId |-> m.reply_to_id, mediaPath |-> m.media_path,
      mediaType |-> m.media_type,
      location |-> IF m.location_lat # Null /\ m.location_lon # Null
                   THEN Some([lat |-> m.location_lat[1], lon |-> m.location_lon[1]])
                   ELSE Null ]

\* A faulty lookup, which C19 must reject: the conversation row is not read.
NewGroupWithDefaults(convs, jid) ==
    [ jid |-> jid, chatType |-> "direct", displayName |-> Null, messages |-> <<>> ]

\* The group created on the first message of a conversation:
\* SELECT chat_type, display_name FROM conversations WHERE jid = ?
NewGroup(convs, jid) ==
    LET found == { c \in convs : c.jid = jid }
    IN [ jid |-> jid,
         chatType |-> IF found # {} THEN (CHOOSE c \in found : TRUE).chat_type ELSE "direct",
         displayName |-> IF found # {} THEN (CHOOSE c \in found : TRUE).display_name ELSE Null,
         messages |-> <<>> ]

\* A faulty loop pass, which C11 must reject: a new group is put first.
AddToGroupsNewestFirst(groups, convs, m) ==
    LET known == \E i \in 1..Len(groups) : groups[i].jid = m.conversation_jid
        gs == IF known THEN groups ELSE <<NewGroup(convs, m.conversation_jid)>> \o groups
    IN [ i \in 1..Len(gs) |->
           IF gs[i].jid = m.conversation_jid
           THEN [gs[i] EXCEPT !.messages = Append(@, ExportedMessage(m))]
           ELSE gs[i] ]

\* A faulty loop pass, which C18 must reject: a message is put at the front of its group.
AddToGroupsAtFront(groups, convs, m) ==
    LET known == \E i \in 1..Len(groups) : groups[i].jid = m.conversation_jid
        gs == IF known THEN groups ELSE Append(groups, NewGroup(convs, m.conversation_jid))
    IN [ i \in 1..Len(gs) |->
           IF gs[i].jid = m.conversation_jid
           THEN [gs[i] EXCEPT !.messages = <<ExportedMessage(m)>> \o @]
           ELSE gs[i] ]

\* One pass of exportMessages' loop; groups is the conversationMap in insertion order.
AddToGroups(groups, convs, m) ==
    LET known == \E i \in 1..Len(groups) : groups[i].jid = m.conversation_jid
        gs == IF known THEN groups ELSE Append(groups, NewGroup(convs, m.conversation_jid))
    IN [ i \in 1..Len(gs) |->
           IF gs[i].jid = m.conversation_jid
           THEN [gs[i] EXCEPT !.messages = Append(@, ExportedMessage(m))]
           ELSE gs[i] ]

\* for (const msg of messages) { ... }; Array.from(conversationMap.values())
RECURSIVE GroupByConversation(_, _, _)
GroupByConversation(groups, convs, rows) ==
    IF rows = <<>> THEN groups
    ELSE GroupByConversation(AddToGroups(groups, convs, Head(rows)), convs, Tail(rows))

\* A faulty MIN(timestamp), which C12 must reject: it gives the largest timestamp.
MinTimestampNewest(msgs) ==
    IF msgs = {} THEN Null
    ELSE Some(CHOOSE t \in { m.timestamp : m \in msgs } : \A m \in msgs : t >= m.timestamp)

\* SELECT MIN(timestamp) / MAX(timestamp) FROM messages
MinTimestamp(msgs) ==
    IF msgs = {} THEN Null
    ELSE Some(CHOOSE t \in { m.timestamp : m \in msgs } : \A m \in msgs : t <= m.timestamp)
MaxTimestamp(msgs) ==
    IF msgs = {} THEN Null
    ELSE Some(CHOOSE t \in { m.timestamp : m \in msgs } : \A m \in msgs : t >= m.timestamp)

Stats(convs, msgs) ==
    [ totalMessages |-> Cardinality(msgs), totalConversations |-> Cardinality(convs),
      oldestMessage |-> MinTimestamp(msgs), newestMessage |-> MaxTimestamp(msgs) ]

\* The filters callers pass.
NoFilter == [from |-> Null, to |-> Null, conversationJid |-> Null, accountId |-> Null,
             limit |-> Null]
Filters ==
    [ from : {Null, Some("1970-01-01T00:00:00.002Z")},
      to : {Null, Some("1970-01-01T00:00:00.001Z")},
      conversationJid : {Null, Some("alice@s.whatsapp.net")},
      accountId : {Null, Some("acc2")},
      limit : {Null, Some(0), Some(1), Some(2)} ]
\* The filters of the ingestion-centred specification: none, and one conversation.
LifecycleFilters == { NoFilter, [NoFilter EXCEPT !.conversationJid = Some("family@g.us")] }

\* queryMessages(filter)
QueryMessages(f) ==
    /\ Idle
    /\ IF NotOpen(db)
       THEN ret' = Outcome("queryMessages", Null, Some(NotInitialized), Null)
       ELSE \E rows \in QueryResults(messages, f) :
                ret' = Outcome("queryMessages", f, Null, rows)
    /\ UNCHANGED <<db, openHandles, tables, clock, lastIngested, lastTimestamp, nCalls, pc, call, cli>>

\* exportMessages(filter)
ExportMessages(f) ==
    /\ Idle
    /\ IF NotOpen(db)
       THEN ret' = Outcome("exportMessages", Null, Some(NotInitialized), Null)
       ELSE \E rows \in QueryResults(messages, f) :
                ret' = Outcome("exportMessages", f, Null,
                               [ query |-> rows,
                                 groups |-> GroupByConversation(<<>>, conversations, rows) ])
    /\ UNCHANGED <<db, openHandles, tables, clock, lastIngested, lastTimestamp, nCalls, pc, call, cli>>

\* getStats()
GetStats ==
    /\ Idle
    /\ IF NotOpen(db)
       THEN ret' = Outcome("getStats", Null, Some(NotInitialized), Null)
       ELSE ret' = Outcome("getStats", Null, Null, Stats(conversations, messages))
    /\ UNCHANGED <<db, openHandles, tables, clock, lastIngested, lastTimestamp, nCalls, pc, call, cli>>

\* The caller takes the outcome of its call.
Return ==
    /\ ret.op # "none"
    /\ ret' = NoCall
    /\ UNCHANGED <<db, openHandles, tables, clock, lastIngested, lastTimestamp, nCalls, pc, call, cli>>

Next ==
    \/ Tick
    \/ Initialize
    \/ Close
    \/ \E p \in Params : StoreMessage(p)
    \/ \E f \in LifecycleFilters : QueryMessages(f)
    \/ \E f \in LifecycleFilters : ExportMessages(f)
    \/ GetStats
    \/ Return

\* The store under serial callers: lifecycle, ingestion, reads.
Spec == Init /\ [][Next]_vars

\* The read path: a store filled with messages, queried under every filter.
NextRead ==
    \/ Initialize
    \/ \E p \in MessageParams : StoreMessage(p)
    \/ \E f \in Filters : QueryMessages(f)
    \/ \E f \in Filters : ExportMessages(f)
    \/ Return

SpecRead == Init /\ [][NextRead]_vars

-----------------------------------------------------------------------------
\* storeMessage statement by statement: callers (stores opened on the same file)
\* whose statements interleave, and statements the engine fails.

StatementParams ==
    { MakeParams("m1", jid, "direct", ts, Null, Null, PlainContent) :
        jid \in ConversationJids, ts \in EdgeTimestamps }
    \cup
    { MakeParams("m1", jid, "group", ts, Null, gp, PlainContent) :
        jid \in ConversationJids, ts \in EdgeTimestamps,
        gp \in { Null, Some(<<"p1@s.whatsapp.net", "p2@s.whatsapp.net">>) } }

\* The calls in flight once caller c has entered storeMessage as the call entry:
\* every call still executing statements has from now on overlapped another.
Entered(c, entry) ==
    [ x \in Callers |->
        IF x = c THEN [entry EXCEPT !.overlapped = \E d \in Callers \ {c} : pc[d] = "running"]
        ELSE IF pc[x] = "running" THEN [call[x] EXCEPT !.overlapped = TRUE]
        ELSE call[x] ]

\* storeMessage(params) is entered: the guard passes, Date.now() is read.  The
\* call remembers how often the caller has made it (tries), whether it ran while
\* another call did (overlapped) and, where found is given, the tables it found
\* (before); none of these is read by a statement.
Enter(c, p, found) ==
    /\ ret.op = "none"
    /\ pc[c] = "idle"
    /\ ~NotOpen(db)
    /\ nCalls < MaxCalls
    /\ call' = Entered(c, [params |-> p, now |-> clock, pos |-> PositionFrom(1, p),
                           done |-> <<>>, before |-> found, tries |-> 1,
                           overlapped |-> FALSE])
    /\ pc' = [pc EXCEPT ![c] = "running"]
    /\ nCalls' = nCalls + 1
    /\ UNCHANGED <<db, openHandles, tables, clock, ret, lastIngested, lastTimestamp, cli>>

Begin(c, p) == Enter(c, p, Null)

\* The statement at the caller's position succeeds.
Step(c) ==
    /\ pc[c] = "running"
    /\ LET T == Exec(call[c].pos, Tables, call[c].params, call[c].now)
           next == NextPosition(call[c].pos, call[c].params)
       IN /\ conversations' = T.conversations
          /\ messages' = T.messages
          /\ participants' = T.participants
          /\ call' = [call EXCEPT ![c].pos = next,
                                   ![c].done = Append(@, StatementOrder[call[c].pos[1]])]
          /\ pc' = [pc EXCEPT ![c] = IF next = End THEN "returned" ELSE "running"]
    /\ UNCHANGED <<db, openHandles, clock, ret, lastIngested, lastTimestamp, nCalls, cli>>

\* A faulty failure path, which C14 must reject: the error is swallowed and the
\* call goes on with its next statement.
FailAndGoOn(c) ==
    /\ pc[c] = "running"
    /\ LET next == NextPosition(call[c].pos, call[c].params)
       IN /\ call' = [call EXCEPT ![c].pos = next]
          /\ pc' = [pc EXCEPT ![c] = IF next = End THEN "returned" ELSE "running"]
    /\ UNCHANGED <<db, openHandles, tables, clock, ret, lastIngested, lastTimestamp, nCalls, cli>>

\* The statement at the caller's position fails: catch (err) { log.error(...); throw err; }
Fail(c) ==
    /\ pc[c] = "running"
    /\ pc' = [pc EXCEPT ![c] = "threw"]
    /\ UNCHANGED <<db, openHandles, tables, clock, ret, lastIngested, lastTimestamp, nCalls, call, cli>>

\* The caller takes the outcome of its call.
Finish(c) ==
    /\ pc[c] \in {"returned", "threw"}
    /\ pc' = [pc EXCEPT ![c] = "idle"]
    /\ call' = [call EXCEPT ![c] = Null]
    /\ UNCHANGED <<db, openHandles, tables, clock, ret, lastIngested, lastTimestamp, nCalls, cli>>

\* The caller makes the call it has just made once more, with the same params:
\* after it returned, or after it threw (a retry of the whole call).
Repeat(c) ==
    /\ ret.op = "none"
    /\ pc[c] \in {"returned", "threw"}
    /\ ~NotOpen(db)
    /\ nCalls < MaxCalls
    /\ call' = Entered(c, [call[c] EXCEPT !.now = clock,
                                          !.pos = PositionFrom(1, call[c].params),
                                          !.done = <<>>,
                                          !.tries = @ + 1])
    /\ pc' = [pc EXCEPT ![c] = "running"]
    /\ nCalls' = nCalls + 1
    /\ UNCHANGED <<db, openHandles, tables, clock, ret, lastIngested, lastTimestamp, cli>>

NextStatement ==
    \/ Initialize
    \/ Return
    \/ \E c \in Callers, p \in StatementParams : Begin(c, p)
    \/ \E c \in Callers : Step(c)
    \/ \E c \in Callers : Fail(c)
    \/ \E c \in Callers : Finish(c)

SpecStatement == Init /\ [][NextStatement]_vars

\* One caller that repeats its calls, while time passes.
NextRetry ==
    \/ Initialize
    \/ Return
    \/ Tick
    \/ \E p \in StatementParams : Enter(1, p, Some(Tables))
    \/ Step(1)
    \/ Fail(1)
    \/ Repeat(1)
    \/ Finish(1)

SpecRetry == Init /\ [][NextRetry]_vars

-----------------------------------------------------------------------------
\* The export-history action of the CLI (src/src/cli/whatsapp-cli.ts), a caller
\* of the store: it makes its own store, reads it and writes the export to a file.

\* validateIsoDate: new Date(dateStr).getTime() is not NaN.
ValidateIsoDate(dateStr) == \E d \in IsoDates : d.iso = dateStr

\* The options of an invocation; writable says whether writeFile can write --output.
CliOptions ==
    [ format : {"json", "csv", "jsonl", "xml"},
      from : {Null, Some("1970-01-01"), Some("yesterday")},
      limit : {Null, Some(0), Some(1)},
      verbose : BOOLEAN,
      writable : BOOLEAN ]

\* The validations of format, dates and limit: TRUE when none throws.
OptionsAccepted(o) ==
    /\ o.format \in {"json", "csv", "jsonl"}
    /\ TruthyString(o.from) => ValidateIsoDate(o.from[1])
    /\ o.limit # Null => ~(o.limit[1] <= 0)

\* The action is invoked: the options are validated, and new WhatsAppHistoryStore(...)
\* gives a store that holds no handle.
CliInvoke(o) ==
    /\ cli.pc = "idle"
    /\ Idle
    /\ db = "null"
    /\ cli' = [cli EXCEPT !.pc = IF OptionsAccepted(o) THEN "initialize" ELSE "caught",
                           !.opts = Some(o)]
    /\ UNCHANGED <<db, openHandles, tables, clock, ret, lastIngested, lastTimestamp, nCalls,
                   pc, call>>

\* store.initialize()
CliInitialize ==
    /\ cli.pc = "initialize"
    /\ IF AlreadyOpen(db)
       THEN UNCHANGED <<db, openHandles, tables>>
       ELSE /\ db' = "open"
            /\ openHandles' = openHandles + 1
            /\ conversations' = CreateTableIfNotExists(conversations)
            /\ messages' = CreateTableIfNotExists(messages)
            /\ participants' = CreateTableIfNotExists(participants)
    /\ cli' = [cli EXCEPT !.pc = IF cli.opts[1].verbose THEN "getStats" ELSE "export",
                           !.calls = Append(@, "initialize")]
    /\ UNCHANGED <<clock, ret, lastIngested, lastTimestamp, nCalls, pc, call>>

\* if (verbose) { store.getStats() ... }: the call returns, or the engine raises.
CliGetStats ==
    /\ cli.pc = "getStats"
    /\ \E raises \in BOOLEAN :
          cli' = [cli EXCEPT !.pc = IF raises THEN "caught" ELSE "export",
                             !.calls = Append(@, "getStats")]
    /\ UNCHANGED <<db, openHandles, tables, clock, ret, lastIngested, lastTimestamp, nCalls,
                   pc, call>>

\* store.exportMessages(filter) for json, store.queryMessages(filter) for csv and
\* jsonl: the call returns, or the engine raises.
CliExport ==
    /\ cli.pc = "export"
    /\ \E raises \in BOOLEAN :
          cli' = [cli EXCEPT !.pc = IF raises THEN "caught" ELSE "writeFile",
                             !.calls = Append(@, IF cli.opts[1].format = "json"
                                                 THEN "exportMessages"
                                                 ELSE "queryMessages")]
    /\ UNCHANGED <<db, openHandles, tables, clock, ret, lastIngested, lastTimestamp, nCalls,
                   pc, call>>

\* await writeFile(outputPath, outputContent, "utf-8"): rejects when the path
\* cannot be written.
CliWriteFile ==
    /\ cli.pc = "writeFile"
    /\ cli' = [cli EXCEPT !.pc = IF cli.opts[1].writable THEN "close" ELSE "caught"]
    /\ UNCHANGED <<db, openHandles, tables, clock, ret, lastIngested, lastTimestamp, nCalls,
                   pc, call>>

\* store.close(), then the output path is logged and the action ends.
CliClose ==
    /\ cli.pc = "close"
    /\ IF db # "null"
       THEN /\ db' = "null"
            /\ openHandles' = openHandles - 1
       ELSE UNCHANGED <<db, openHandles>>
    /\ cli' = [cli EXCEPT !.pc = "ended", !.calls = Append(@, "close")]
    /\ UNCHANGED <<tables, clock, ret, lastIngested, lastTimestamp, nCalls, pc, call>>

\* catch (err) { defaultRuntime.error(...); defaultRuntime.exit(1); }: the action ends.
CliCatch ==
    /\ cli.pc = "caught"
    /\ cli' = [cli EXCEPT !.pc = "exited"]
    /\ UNCHANGED <<db, openHandles, tables, clock, ret, lastIngested, lastTimestamp, nCalls,
                   pc, call>>

NextCli ==
    \/ \E o \in CliOptions : CliInvoke(o)
    \/ CliInitialize
    \/ CliGetStats
    \/ CliExport
    \/ CliWriteFile
    \/ CliClose
    \/ CliCatch

\* One invocation of the export-history action.
SpecCli == Init /\ [][NextCli]_vars

-----------------------------------------------------------------------------
\* Claims.

\* The rows of a table with a given key.
MessagesAt(k) == { m \in messages : <<m.conversation_jid, m.message_id>> = k }
ConversationsAt(jid) == { c \in conversations : c.jid = jid }
ParticipantsAt(jid, pj) ==
    { r \in participants : r.conversation_jid = jid /\ r.participant_jid = pj }

\* A step in which a serial caller makes call op, and the call succeeds.
Calls(op) == ret.op = "none" /\ ret'.op = op
Succeeds(op) == Calls(op) /\ ret'.err = Null

\* The row holds exactly the message arguments a: absent optional arguments are NULL.
HoldsArgs(m, a) ==
    /\ m.message_id = a.messageId /\ m.conversation_jid = a.conversationJid
    /\ m.sender_jid = a.senderJid /\ m.sender_e164 = a.senderE164
    /\ m.sender_name = a.senderName
    /\ m.body = a.body /\ m.timestamp = a.timestamp
    /\ m.is_from_me = (IF a.isFromMe THEN 1 ELSE 0)
    /\ m.reply_to_id = a.replyToId /\ m.media_path = a.mediaPath
    /\ m.media_type = a.mediaType
    /\ IF a.location = Null
       THEN m.location_lat = Null /\ m.location_lon = Null
       ELSE m.location_lat = Some(a.location[1].lat) /\ m.location_lon = Some(a.location[1].lon)
    /\ m.raw_message = JsonStringify(a.rawMessage)
    /\ m.account_id = a.accountId

\* C1: after any sequence of successful storeMessage calls the messages table holds
\* exactly one row per (conversationJid, messageId) pair ever ingested, the row
\* holds the fields of the latest ingestion of the pair (full replace; optional
\* fields absent from it are NULL), and the same messageId in two conversations
\* gives two rows.
C1_OneRowPerKeyLatestWins ==
    /\ \A k \in MessageKeys :
          IF lastIngested[k] = Null
          THEN MessagesAt(k) = {}
          ELSE /\ Cardinality(MessagesAt(k)) = 1
               /\ \A m \in MessagesAt(k) : HoldsArgs(m, lastIngested[k][1])
    /\ \A m \in messages : <<m.conversation_jid, m.message_id>> \in MessageKeys

\* C1 witness: two calls with the same key left one row, written by the second
\* call (its Date.now() is later) and holding its absent optional fields as NULL.
C1_Witness ==
    /\ nCalls = 2
    /\ ret.op = "storeMessage" /\ ret.err = Null /\ ret.args.replyToId = Null
    /\ Cardinality(messages) = 1
    /\ \A m \in messages : m.created_at = 2 /\ m.reply_to_id = Null /\ m.location_lat = Null

\* C2: after successful, serial storeMessage calls there is exactly one conversation
\* row per conversationJid ingested, and its last_message_at is the timestamp of
\* the last call for that conversation, larger or smaller than earlier ones.
C2_OneConversationRowLastTimestamp ==
    \A jid \in ConversationJids :
        IF lastTimestamp[jid] = Null
        THEN ConversationsAt(jid) = {}
        ELSE /\ Cardinality(ConversationsAt(jid)) = 1
             /\ \A c \in ConversationsAt(jid) : c.last_message_at = lastTimestamp[jid][1]

\* C2 witness: a conversation with two messages whose last_message_at is the
\* smaller of their timestamps.
C2_Witness ==
    \E c \in conversations :
        /\ Cardinality({ m \in messages : m.conversation_jid = c.jid }) = 2
        /\ \E m \in messages : m.conversation_jid = c.jid /\ m.timestamp > c.last_message_at
        /\ \E m \in messages : m.conversation_jid = c.jid /\ m.timestamp = c.last_message_at

\* C3 as claimed: last_message_at of a conversation never decreases from one state
\* to the next.
C3_NeverDecreases ==
    [][ \A c \in conversations : \A d \in conversations' :
            d.jid = c.jid => d.last_message_at >= c.last_message_at ]_vars

\* C3 as amended: last_message_at is last-write-wins.  A successful storeMessage
\* sets it, for its conversation, to the timestamp of the call, smaller or not;
\* every other row, and every other step, leaves it as it is.
C3_LastWriteWins ==
    [][ \A d \in conversations' :
            IF Succeeds("storeMessage") /\ d.jid = ret'.args.conversationJid
            THEN d.last_message_at = ret'.args.timestamp
            ELSE \E c \in conversations : c.jid = d.jid /\ c.last_message_at = d.last_message_at
      ]_vars

\* C3 witness: a call has just lowered last_message_at below the timestamp of a
\* message already stored in the conversation.
C3_Witness ==
    /\ ret.op = "storeMessage" /\ ret.err = Null
    /\ \E c \in ConversationsAt(ret.args.conversationJid) :
          /\ c.last_message_at = ret.args.timestamp
          /\ \E m \in messages :
                m.conversation_jid = c.jid /\ m.timestamp > c.last_message_at

\* C4: the display name is sticky.  Once non-null it is non-null in every later
\* state; a storeMessage without displayName leaves it unchanged; a storeMessage
\* with a displayName sets it to exactly that value.
C4_DisplayNameSticky ==
    [][ /\ \A c \in conversations : c.display_name # Null =>
              \E d \in conversations' : d.jid = c.jid /\ d.display_name # Null
        /\ Succeeds("storeMessage") =>
              \A d \in { x \in conversations' : x.jid = ret'.args.conversationJid } :
                  IF ret'.args.displayName # Null
                  THEN d.display_name = ret'.args.displayName
                  ELSE \A c \in ConversationsAt(ret'.args.conversationJid) :
                           d.display_name = c.display_name
      ]_vars

\* C4 witness: a call without displayName has just been made on a conversation
\* that keeps the name an earlier call gave it.
C4_Witness ==
    /\ nCalls = 2
    /\ ret.op = "storeMessage" /\ ret.err = Null /\ ret.args.displayName = Null
    /\ \E c \in ConversationsAt(ret.args.conversationJid) :
          c.display_name = Some("Alice") /\ c.last_message_at = ret.args.timestamp

\* C5: participant insertion is first-write-wins.  A (conversation_jid,
\* participant_jid) row, once there, is never changed in any field by a later
\* call or by a duplicate entry of the same list, and no pair has two rows.
C5_ParticipantFirstWriteWins ==
    [][ /\ \A r \in participants : r \in participants'
        /\ \A r, q \in participants' :
              (r.conversation_jid = q.conversation_jid
                  /\ r.participant_jid = q.participant_jid) => r = q
      ]_vars

\* C5 witness: a later call (Date.now() has advanced) lists, twice, a participant
\* recorded by an earlier call; the row keeps its first joined_at.
C5_Witness ==
    /\ clock = 2 /\ nCalls = 2
    /\ ret.op = "storeMessage" /\ ret.err = Null
    /\ ret.args.chatType = "group"
    /\ ret.args.groupParticipants =
          Some(<<"p2@s.whatsapp.net", "p1@s.whatsapp.net", "p2@s.whatsapp.net">>)
    /\ \E r \in ParticipantsAt(ret.args.conversationJid, "p1@s.whatsapp.net") : r.joined_at = 1
    /\ \E r \in ParticipantsAt(ret.args.conversationJid, "p2@s.whatsapp.net") : r.joined_at = 2

ReadWriteOps == {"storeMessage", "queryMessages", "exportMessages", "getStats"}

\* C6: storeMessage, queryMessages, exportMessages and getStats, invoked while no
\* handle is open (before the first initialize, after close), fail with the
\* not-initialized error, return nothing and leave the persisted tables unchanged.
C6_NotInitialized ==
    [][ \A op \in ReadWriteOps :
            (Calls(op) /\ openHandles = 0) =>
                /\ ret'.err = Some(NotInitialized)
                /\ ret'.value = Null
                /\ tables' = tables
      ]_vars

\* C6 witness: exportMessages has failed on a closed store that holds messages.
C6_Witness ==
    /\ ret.op = "exportMessages" /\ ret.err = Some(NotInitialized)
    /\ openHandles = 0 /\ messages # {}

\* C7: initialize and close are idempotent.  initialize on an open store changes
\* neither the handle nor the data; close on a closed store changes nothing and
\* raises nothing; at most one handle is ever open; and neither close nor a later
\* initialize loses or duplicates a stored row.
C7_LifecycleIdempotent ==
    [][ /\ (Calls("initialize") /\ openHandles > 0) =>
              (db' = db /\ openHandles' = openHandles /\ tables' = tables /\ ret'.err = Null)
        /\ (Calls("close") /\ openHandles = 0) =>
              (db' = db /\ openHandles' = openHandles /\ tables' = tables /\ ret'.err = Null)
        /\ (Calls("initialize") \/ Calls("close")) => tables' = tables
        /\ Calls("initialize") => (db' = "open" /\ openHandles' = 1)
        /\ Calls("close") => (db' = "null" /\ openHandles' = 0)
        /\ openHandles' <= 1
      ]_vars

\* C7 witness: initialize has been called on a store that holds two messages: one
\* handle is open and the rows are still there.
C7_Witness ==
    /\ ret.op = "initialize" /\ ret.err = Null
    /\ db = "open" /\ openHandles = 1
    /\ nCalls = 2 /\ Cardinality(messages) = 2

\* C8: within every storeMessage call the conversation upsert precedes the message
\* write, so in every statement-level state (mid-call, after a failed statement,
\* under interleaved calls) every message row's conversation_jid has a
\* conversation row: no orphan message is observable.
C8_NoOrphanMessage ==
    /\ \A m \in messages : \E cv \in conversations : cv.jid = m.conversation_jid
    /\ \A c \in Callers : call[c] # Null =>
          \A i \in 1..Len(call[c].done) :
              call[c].done[i] = "insertMsg" =>
                  \E j \in 1..(i - 1) : call[c].done[j] = "upsertConv"

\* C8 witness: one call failed at its message write, after its conversation upsert,
\* while the other call, for another conversation, has written its message and is
\* in its participant loop.
C8_Witness ==
    \E c, d \in Callers :
        /\ pc[c] = "threw" /\ StatementOrder[call[c].pos[1]] = "insertMsg"
        /\ pc[d] = "running" /\ StatementOrder[call[d].pos[1]] = "insertParticipants"
        /\ call[c].params.conversationJid # call[d].params.conversationJid
        /\ messages # {}

\* The rows a filter asks for: every predicate it supplies holds.
Matches(m, f) ==
    /\ f.from # Null => m.timestamp >= ParseDate(f.from[1])
    /\ f.to # Null => m.timestamp <= ParseDate(f.to[1])
    /\ f.conversationJid # Null => m.conversation_jid = f.conversationJid[1]
    /\ f.accountId # Null => m.account_id = f.accountId[1]
Matching(f) == { m \in messages : Matches(m, f) }

Range(s) == { s[i] : i \in 1..Len(s) }
Ascending(rows) ==
    \A i, j \in 1..Len(rows) : i < j => rows[i].timestamp <= rows[j].timestamp
Smaller(a, b) == IF a < b THEN a ELSE b

\* C9: queryMessages returns exactly the rows that satisfy all the predicates the
\* filter supplies (from and to inclusive, conversationJid, accountId; an absent
\* one constrains nothing), each once, by ascending timestamp.
C9_QueryExactlyMatching ==
    (ret.op = "queryMessages" /\ ret.err = Null /\ ret.args.limit = Null) =>
        /\ Range(ret.value) = Matching(ret.args)
        /\ Len(ret.value) = Cardinality(Matching(ret.args))
        /\ Ascending(ret.value)

\* C9 witness: a query bounded below and restricted to one account has returned
\* one of two stored messages, the other failing the lower bound only.
C9_Witness ==
    /\ ret.op = "queryMessages" /\ ret.err = Null /\ ret.args.limit = Null
    /\ ret.args.from # Null /\ ret.args.accountId # Null /\ ret.args.to = Null
    /\ Cardinality(messages) = 2 /\ Len(ret.value) = 1
    /\ \E m \in messages :
          m.account_id = ret.args.accountId[1] /\ m.timestamp < ParseDate(ret.args.from[1])

\* C10 as claimed: for every supplied limit n >= 0, n = 0 included, queryMessages
\* returns min(n, |matches|) rows, and they are the earliest of the matching rows
\* in ascending order.
C10_LimitHead ==
    (ret.op = "queryMessages" /\ ret.err = Null /\ ret.args.limit # Null) =>
        /\ Len(ret.value) <= ret.args.limit[1]
        /\ Len(ret.value) = Smaller(ret.args.limit[1], Cardinality(Matching(ret.args)))
        /\ Range(ret.value) \subseteq Matching(ret.args)
        /\ Cardinality(Range(ret.value)) = Len(ret.value)
        /\ Ascending(ret.value)
        /\ \A m \in Matching(ret.args) \ Range(ret.value) :
              \A i \in 1..Len(ret.value) : ret.value[i].timestamp <= m.timestamp

\* C10 for n >= 1: what a positive limit does return, the head of the ascending result.
C10_PositiveLimitHead ==
    (ret.op = "queryMessages" /\ ret.err = Null /\ ret.args.limit # Null
        /\ ret.args.limit[1] >= 1) =>
        /\ Len(ret.value) = Smaller(ret.args.limit[1], Cardinality(Matching(ret.args)))
        /\ Range(ret.value) \subseteq Matching(ret.args)
        /\ Cardinality(Range(ret.value)) = Len(ret.value)
        /\ Ascending(ret.value)
        /\ \A m \in Matching(ret.args) \ Range(ret.value) :
              \A i \in 1..Len(ret.value) : ret.value[i].timestamp <= m.timestamp

\* The position of the first row of a conversation in a query result.
FirstIndex(rows, jid) ==
    CHOOSE i \in 1..Len(rows) :
        /\ rows[i].conversation_jid = jid
        /\ \A j \in 1..(i - 1) : rows[j].conversation_jid # jid

\* The groups of an export come in the order in which their conversations first
\* appear in the query result the export was built from.
GroupsByFirstAppearance(v) ==
    /\ \A i \in 1..Len(v.groups) :
          \E k \in 1..Len(v.query) : v.query[k].conversation_jid = v.groups[i].jid
    /\ \A i, j \in 1..Len(v.groups) :
          i < j => FirstIndex(v.query, v.groups[i].jid) < FirstIndex(v.query, v.groups[j].jid)

\* C11 as claimed: exportMessages returns its groups in the order of each
\* conversation's first matching message in the timestamp-ascending query result,
\* and within each group the message timestamps are strictly ascending.
C11_StrictlyAscending ==
    (ret.op = "exportMessages" /\ ret.err = Null) =>
        /\ Ascending(ret.value.query)
        /\ GroupsByFirstAppearance(ret.value)
        /\ \A g \in Range(ret.value.groups) :
              \A i, j \in 1..Len(g.messages) :
                  i < j => g.messages[i].timestamp < g.messages[j].timestamp

\* C11 as amended: the groups are in first-appearance order, and within each group
\* the timestamps never decrease; two messages of one conversation with the same
\* timestamp are both exported, in either order.
C11_GroupsOrderedTimestampsAscending ==
    (ret.op = "exportMessages" /\ ret.err = Null) =>
        /\ Ascending(ret.value.query)
        /\ GroupsByFirstAppearance(ret.value)
        /\ \A g \in Range(ret.value.groups) :
              \A i, j \in 1..Len(g.messages) :
                  i < j => g.messages[i].timestamp <= g.messages[j].timestamp

\* C11 witness: an export of two conversations whose groups come in timestamp
\* order of their first messages, against the order of the jids.
C11_Witness ==
    /\ ret.op = "exportMessages" /\ ret.err = Null
    /\ Len(ret.value.groups) = 2
    /\ ret.value.groups[1].jid = "family@g.us"
    /\ ret.value.groups[2].jid = "alice@s.whatsapp.net"
    /\ ret.value.groups[1].messages[1].timestamp < ret.value.groups[2].messages[1].timestamp

\* The keys and conversations ingested so far, and the timestamps of the latest
\* ingestion of each key.
IngestedKeys == { k \in MessageKeys : lastIngested[k] # Null }
IngestedJids == { j \in ConversationJids : lastTimestamp[j] # Null }
LatestTimestamps == { lastIngested[k][1].timestamp : k \in IngestedKeys }

\* C12: getStats returns the number of message rows, the number of conversation
\* rows, and the minimum and maximum timestamp over the current message rows; both
\* bounds are null exactly when there are no messages, otherwise oldest <= newest;
\* a replaced row counts with the timestamp of its replacement only.
C12_StatsCountsAndBounds ==
    (ret.op = "getStats" /\ ret.err = Null) =>
        /\ ret.value.totalMessages = Cardinality(IngestedKeys)
        /\ ret.value.totalMessages = Cardinality(messages)
        /\ ret.value.totalConversations = Cardinality(IngestedJids)
        /\ ret.value.totalConversations = Cardinality(conversations)
        /\ (ret.value.oldestMessage = Null) <=> (messages = {})
        /\ (ret.value.newestMessage = Null) <=> (messages = {})
        /\ messages # {} =>
              /\ ret.value.oldestMessage[1] \in LatestTimestamps
              /\ ret.value.newestMessage[1] \in LatestTimestamps
              /\ \A t \in LatestTimestamps :
                    ret.value.oldestMessage[1] <= t /\ t <= ret.value.newestMessage[1]
              /\ \A m \in messages :
                    ret.value.oldestMessage[1] <= m.timestamp
                        /\ m.timestamp <= ret.value.newestMessage[1]
              /\ ret.value.oldestMessage[1] <= ret.value.newestMessage[1]

\* C12 witness: getStats on a store of two messages with different timestamps.
C12_Witness ==
    /\ ret.op = "getStats" /\ ret.err = Null
    /\ ret.value.totalMessages = 2
    /\ ret.value.oldestMessage # Null /\ ret.value.newestMessage # Null
    /\ ret.value.oldestMessage[1] < ret.value.newestMessage[1]

\* C13: round trip.  After one valid message is ingested into an empty store,
\* queryMessages() returns exactly one row; its message_id, conversation_jid,
\* sender fields, body, timestamp, from-me flag (as 1 or 0) and account_id are the
\* ingested values, its optional fields are null where absent, and location_lat
\* and location_lon are both null or both non-null.
C13_RoundTrip ==
    (ret.op = "queryMessages" /\ ret.err = Null /\ ret.args = NoFilter /\ nCalls = 1) =>
        /\ Len(ret.value) = 1
        /\ \E k \in IngestedKeys :
              LET a == lastIngested[k][1]
                  row == ret.value[1]
              IN /\ IngestedKeys = {k}
                 /\ row.message_id = a.messageId
                 /\ row.conversation_jid = a.conversationJid
                 /\ row.sender_jid = a.senderJid
                 /\ row.sender_e164 = a.senderE164
                 /\ row.sender_name = a.senderName
                 /\ row.body = a.body
                 /\ row.timestamp = a.timestamp
                 /\ (row.is_from_me = 1) <=> a.isFromMe
                 /\ (row.is_from_me = 0) <=> ~a.isFromMe
                 /\ row.account_id = a.accountId
                 /\ row.reply_to_id = a.replyToId
                 /\ row.media_path = a.mediaPath
                 /\ row.media_type = a.mediaType
                 /\ a.location = Null => (row.location_lat = Null /\ row.location_lon = Null)
                 /\ a.location # Null =>
                       /\ row.location_lat = Some(a.location[1].lat)
                       /\ row.location_lon = Some(a.location[1].lon)
                 /\ (row.location_lat = Null) <=> (row.location_lon = Null)

\* C13 witness: the only message ever ingested, one without optional fields, has
\* been read back with them null.
C13_Witness ==
    /\ ret.op = "queryMessages" /\ ret.err = Null /\ ret.args = NoFilter /\ nCalls = 1
    /\ Len(ret.value) = 1
    /\ ret.value[1].body = "hello" /\ ret.value[1].is_from_me = 1
    /\ ret.value[1].reply_to_id = Null /\ ret.value[1].location_lat = Null

\* The statements a storeMessage call executes when none fails, in program order.
Statements(p) ==
    <<"upsertConv", "insertMsg">>
        \o [ i \in 1..Len(ParticipantsToStore(p)) |-> "insertParticipants" ]
IsPrefix(s, t) == Len(s) <= Len(t) /\ \A i \in 1..Len(s) : s[i] = t[i]

\* C14: when a statement of storeMessage fails the call raises the error; it
\* executes no later statement and retries nothing (what it has executed stays a
\* proper prefix of its statements, frozen until the caller takes the error), and
\* the effects of the statements that succeeded are not rolled back (the failure
\* changes no table, and the rows those statements wrote are there).
C14_FailureStopsWithoutRollback ==
    [][ \A c \in Callers :
            /\ (pc[c] = "running" /\ pc'[c] # "running" /\ call'[c] = call[c]) =>
                  (pc'[c] = "threw" /\ tables' = tables)
            /\ pc[c] = "threw" =>
                  \/ pc'[c] = "threw" /\ call'[c] = call[c]
                  \/ pc'[c] = "idle" /\ call'[c] = Null /\ tables' = tables
            /\ call'[c] # Null =>
                  /\ IsPrefix(call'[c].done, Statements(call'[c].params))
                  /\ call'[c].pos = End <=>
                        Len(call'[c].done) = Len(Statements(call'[c].params))
            /\ pc'[c] = "threw" =>
                  /\ Len(call'[c].done) < Len(Statements(call'[c].params))
                  /\ Len(call'[c].done) >= 1 =>
                        \E cv \in conversations' : cv.jid = call'[c].params.conversationJid
                  /\ Len(call'[c].done) >= 2 =>
                        \E m \in messages' :
                            /\ m.conversation_jid = call'[c].params.conversationJid
                            /\ m.message_id = call'[c].params.messageId
      ]_vars

\* C14 witness: a call has failed at its message write after its conversation
\* upsert: last_message_at is already the call's timestamp, while the message row
\* is still the one an earlier call wrote, with another timestamp.
C14_Witness ==
    \E c \in Callers :
        /\ pc[c] = "threw" /\ call[c].done = <<"upsertConv">>
        /\ \E cv \in ConversationsAt(call[c].params.conversationJid) :
              cv.last_message_at = call[c].params.timestamp
        /\ \E m \in MessagesAt(<<call[c].params.conversationJid, call[c].params.messageId>>) :
              m.timestamp # call[c].params.timestamp
        /\ \A d \in Callers \ {c} : pc[d] = "idle"

\* A row without one of its columns, and tables without their ingestion timestamps.
Without(row, column) == [ f \in (DOMAIN row) \ {column} |-> row[f] ]
WithoutMessageCreatedAt(T) ==
    [ T EXCEPT !.messages = { Without(m, "created_at") : m \in T.messages } ]
WithoutIngestionTimestamps(T) ==
    [ conversations |-> { Without(cv, "created_at") : cv \in T.conversations },
      messages |-> { Without(m, "created_at") : m \in T.messages },
      participants |-> { Without(r, "joined_at") : r \in T.participants } ]
SameRowCounts(T, U) ==
    /\ Cardinality(T.conversations) = Cardinality(U.conversations)
    /\ Cardinality(T.messages) = Cardinality(U.messages)
    /\ Cardinality(T.participants) = Cardinality(U.participants)

\* The tables after the call of caller c, executed once and successfully, at time
\* t, on the tables its first attempt found.
OnceAt(c, t) ==
    RunFrom(PositionFrom(1, call[c].params), call[c].before[1], call[c].params, t)

\* C15 as claimed: when a storeMessage call made twice in a row (the second a
\* repetition after success, or a retry after a failure at any statement) has
\* returned, the three tables are what one successful execution would have left,
\* but for messages.created_at.
C15_IdempotentUpToMessageCreatedAt ==
    \A c \in Callers :
        (pc[c] = "returned" /\ call[c].tries >= 2 /\ call[c].before # Null) =>
            \E t \in 1..clock :
                /\ WithoutMessageCreatedAt(Tables) = WithoutMessageCreatedAt(OnceAt(c, t))
                /\ SameRowCounts(Tables, OnceAt(c, t))

\* C15 as amended: the same, but for every ingestion timestamp: messages.created_at,
\* conversations.created_at and participants.joined_at.  A retry after a failure
\* keeps the conversation row and the participant rows the failed attempt wrote,
\* with that attempt's Date.now().
C15_IdempotentUpToIngestionTimestamps ==
    \A c \in Callers :
        (pc[c] = "returned" /\ call[c].tries >= 2 /\ call[c].before # Null) =>
            /\ WithoutIngestionTimestamps(Tables) =
                  WithoutIngestionTimestamps(OnceAt(c, call[c].now))
            /\ SameRowCounts(Tables, OnceAt(c, call[c].now))

\* C15 witness: a call that failed in its participant loop was retried later and
\* returned: the two participants it lists have different joined_at.
C15_Witness ==
    \E c \in Callers :
        /\ pc[c] = "returned" /\ call[c].tries = 2
        /\ \E r, q \in participants :
              /\ r.conversation_jid = call[c].params.conversationJid
              /\ q.conversation_jid = call[c].params.conversationJid
              /\ r.joined_at < q.joined_at
        /\ \A m \in messages : m.created_at = call[c].now

\* C16: statement-level interleaving of storeMessage calls is not serializable,
\* while serialized calls give the serial result.  A call that overlapped no other
\* leaves, when it returns, what the last call of a serial order leaves: the
\* conversation's last_message_at, the message row and the listed participants
\* are all its own.  (The witness is the interleaving the claim speaks of: both
\* calls have returned, last_message_at is of one and the message row of the
\* other, which no serial order of the two gives.)
C16_SerializedCallsGiveSerialResult ==
    [][ \A c \in Callers :
            (pc[c] = "running" /\ pc'[c] = "returned" /\ ~call'[c].overlapped) =>
                LET p == call'[c].params
                IN /\ \E cv \in conversations' :
                         cv.jid = p.conversationJid /\ cv.last_message_at = p.timestamp
                   /\ MessageRow(p, call'[c].now) \in messages'
                   /\ \A m \in messages' :
                         (m.conversation_jid = p.conversationJid /\ m.message_id = p.messageId)
                             => m = MessageRow(p, call'[c].now)
                   /\ \A i \in 1..Len(ParticipantsToStore(p)) :
                         \E r \in participants' :
                             /\ r.conversation_jid = p.conversationJid
                             /\ r.participant_jid = ParticipantsToStore(p)[i]
      ]_vars

\* C16 witness: two overlapping calls with the same composite key and different
\* timestamps have both returned, no statement having failed; last_message_at is
\* the timestamp of one, the message row holds the timestamp of the other.
C16_Witness ==
    \E c, d \in Callers :
        /\ c # d /\ pc[c] = "returned" /\ pc[d] = "returned"
        /\ call[c].overlapped /\ call[d].overlapped
        /\ call[c].params.conversationJid = call[d].params.conversationJid
        /\ call[c].params.messageId = call[d].params.messageId
        /\ call[c].params.timestamp # call[d].params.timestamp
        /\ nCalls = 2
        /\ \A cv \in conversations : cv.last_message_at = call[c].params.timestamp
        /\ \A m \in messages : m.timestamp = call[d].params.timestamp
        /\ Cardinality(conversations) = 1 /\ Cardinality(messages) = 1

\* C17 as claimed: a storeMessage call for a direct conversation, or without a
\* participant list, leaves the participants table unchanged, and in every state
\* every participant row's conversation_jid refers to a conversation row whose
\* stored chat_type is group.
C17_ParticipantsOfGroupRows ==
    [][ /\ (Succeeds("storeMessage")
              /\ (ret'.args.chatType = "direct" \/ ret'.args.groupParticipants = Null))
                => participants' = participants
        /\ \A r \in participants' :
              \E cv \in conversations' :
                  cv.jid = r.conversation_jid /\ cv.chat_type = "group"
      ]_vars

\* C17, what does hold: participant rows are written only by calls whose chatType
\* argument is group and that supply a list, each row belongs to the conversation
\* of the call and to a listed participant, and its conversation has a row.
C17_ParticipantsOfGroupCalls ==
    [][ /\ (Succeeds("storeMessage")
              /\ (ret'.args.chatType = "direct" \/ ret'.args.groupParticipants = Null))
                => participants' = participants
        /\ participants' # participants =>
              /\ Succeeds("storeMessage")
              /\ \A r \in participants' \ participants :
                    /\ r.conversation_jid = ret'.args.conversationJid
                    /\ r.participant_jid \in Range(ret'.args.groupParticipants[1])
        /\ \A r \in participants' :
              \E cv \in conversations' : cv.jid = r.conversation_jid
      ]_vars

\* The rows of a query result that belong to one conversation, in their order.
RowsOf(rows, jid) ==
    LET OfConversation(r) == r.conversation_jid = jid
    IN SelectSeq(rows, OfConversation)

\* C18: exportMessages(filter) is a lossless partition of queryMessages(filter),
\* the limit applied to messages.  There is exactly one group per conversation_jid
\* of the query result, none is empty, and each group's messages are the rows of
\* its conversation in the query result, in the same order; so every row is in
\* exactly one group.
C18_ExportPartitionsQuery ==
    (ret.op = "exportMessages" /\ ret.err = Null) =>
        LET rows == ret.value.query
            groups == ret.value.groups
        IN /\ rows \in QueryResults(messages, ret.args)
           /\ { groups[i].jid : i \in 1..Len(groups) } =
                 { rows[k].conversation_jid : k \in 1..Len(rows) }
           /\ \A i, j \in 1..Len(groups) : groups[i].jid = groups[j].jid => i = j
           /\ \A i \in 1..Len(groups) :
                 LET own == RowsOf(rows, groups[i].jid)
                 IN /\ Len(groups[i].messages) >= 1
                    /\ Len(groups[i].messages) = Len(own)
                    /\ \A k \in 1..Len(own) :
                          /\ groups[i].messages[k].messageId = own[k].message_id
                          /\ groups[i].messages[k].timestamp = own[k].timestamp
                          /\ groups[i].messages[k].body = own[k].body
           /\ TruthyNumber(ret.args.limit) =>
                 \A i \in 1..Len(groups) : Len(groups[i].messages) <= ret.args.limit[1]

\* C18 witness: an export limited to one message, of a store with a message in
\* each of two conversations, has one group of one message.
C18_Witness ==
    /\ ret.op = "exportMessages" /\ ret.err = Null
    /\ ret.args.limit = Some(1) /\ ret.args.conversationJid = Null
    /\ Cardinality({ m.conversation_jid : m \in Matching(ret.args) }) = 2
    /\ Len(ret.value.groups) = 1
    /\ Len(ret.value.groups[1].messages) = 1

\* C19: each group of an export carries the chat kind and display name of the
\* conversation row as it is when the export is made, whatever the calls that
\* ingested its messages said; and an export of the same rows from tables in which
\* the conversation row is missing gives the group chat kind direct and no display
\* name.
C19_GroupCarriesConversationRow ==
    (ret.op = "exportMessages" /\ ret.err = Null) =>
        \A i \in 1..Len(ret.value.groups) :
            LET g == ret.value.groups[i]
                rowMissing == { cv \in conversations : cv.jid # g.jid }
                exported == GroupByConversation(<<>>, rowMissing, ret.value.query)
            IN /\ \E cv \in conversations :
                     /\ cv.jid = g.jid
                     /\ g.chatType = cv.chat_type
                     /\ g.displayName = cv.display_name
               /\ \E k \in 1..Len(exported) : exported[k].jid = g.jid
               /\ \A k \in 1..Len(exported) :
                     exported[k].jid = g.jid =>
                         /\ exported[k].chatType = "direct"
                         /\ exported[k].displayName = Null
                         /\ exported[k].messages = g.messages

\* C19 witness: an exported group is a named group conversation and holds two
\* messages, one of which was ingested by a call that said direct and gave no name.
C19_Witness ==
    /\ ret.op = "exportMessages" /\ ret.err = Null
    /\ Len(ret.value.groups) = 1
    /\ ret.value.groups[1].chatType = "group"
    /\ ret.value.groups[1].displayName = Some("Family")
    /\ Len(ret.value.groups[1].messages) = 2

\* The keys present in the tables.
ConversationKeysIn(convs) == { cv.jid : cv \in convs }
MessageKeysIn(msgs) == { <<m.conversation_jid, m.message_id>> : m \in msgs }
ParticipantKeysIn(parts) == { <<r.conversation_jid, r.participant_jid>> : r \in parts }

\* C20: nothing is ever deleted.  Over every step of every operation the sets of
\* conversation jids, message keys and participant pairs only grow, so the totals
\* getStats reports never decrease, and only a successful storeMessage changes the
\* contents of the tables.
C20_NothingDeleted ==
    [][ /\ ConversationKeysIn(conversations) \subseteq ConversationKeysIn(conversations')
        /\ MessageKeysIn(messages) \subseteq MessageKeysIn(messages')
        /\ ParticipantKeysIn(participants) \subseteq ParticipantKeysIn(participants')
        /\ Stats(conversations', messages').totalMessages
              >= Stats(conversations, messages).totalMessages
        /\ Stats(conversations', messages').totalConversations
              >= Stats(conversations, messages).totalConversations
        /\ tables' # tables => Succeeds("storeMessage")
      ]_vars

\* C20 witness: a store holding two conversations, two messages and participants
\* has been closed, its rows still in the file.
C20_Witness ==
    /\ ret.op = "close" /\ db = "null" /\ openHandles = 0
    /\ Cardinality(conversations) = 2 /\ Cardinality(messages) = 2
    /\ participants # {}

\* C21 as claimed: the export-history action closes its store on every exit path.
\* Whenever the action has ended, by returning or through its catch block, and
\* store.initialize() was executed, store.close() was executed too and no handle
\* is left open.
C21_ClosedOnEveryExit ==
    (cli.pc \in {"ended", "exited"} /\ "initialize" \in Range(cli.calls)) =>
        /\ "close" \in Range(cli.calls)
        /\ db = "null" /\ openHandles = 0

\* C21, what does hold: the store is closed when the action ends without an
\* error, and an action that ends through its catch block has never called
\* store.close().
C21_ClosedOnSuccessOnly ==
    /\ cli.pc = "ended" =>
          /\ cli.calls[1] = "initialize" /\ cli.calls[Len(cli.calls)] = "close"
          /\ db = "null" /\ openHandles = 0
    /\ cli.pc = "exited" =>
          /\ "close" \notin Range(cli.calls)
          /\ "initialize" \in Range(cli.calls) => (db = "open" /\ openHandles = 1)

\* C22: chat_type and created_at of a conversation are fixed by the storeMessage
\* call that creates its row (the chatType of that call, its Date.now()).  Every
\* later step keeps both; a later storeMessage for the jid, whatever its chatType,
\* changes display_name only to a non-null displayName it supplies, and
\* last_message_at to its timestamp; and exportMessages reports the chat kind of
\* the row, the first-ingested one.
C22_ChatTypeAndCreatedAtFixed ==
    [][ /\ \A c \in conversations :
              \E d \in conversations' :
                  /\ d.jid = c.jid
                  /\ d.chat_type = c.chat_type
                  /\ d.created_at = c.created_at
                  /\ d # c =>
                        /\ Succeeds("storeMessage")
                        /\ ret'.args.conversationJid = c.jid
                        /\ d.last_message_at = ret'.args.timestamp
                        /\ d.display_name # c.display_name =>
                              /\ ret'.args.displayName # Null
                              /\ d.display_name = ret'.args.displayName
        /\ \A d \in conversations' :
              ConversationsAt(d.jid) = {} =>
                  /\ Succeeds("storeMessage")
                  /\ d.jid = ret'.args.conversationJid
                  /\ d.chat_type = ret'.args.chatType
                  /\ d.created_at = clock
        /\ Succeeds("exportMessages") =>
              \A i \in 1..Len(ret'.value.groups) :
                  \E c \in conversations :
                      /\ c.jid = ret'.value.groups[i].jid
                      /\ c.chat_type = ret'.value.groups[i].chatType
      ]_vars

\* C22 witness: an export reports a conversation as direct, the chat kind of the
\* call that created it, although a later call for it said group and stored a
\* participant.
C22_Witness ==
    /\ ret.op = "exportMessages" /\ ret.err = Null
    /\ \E i \in 1..Len(ret.value.groups) :
          /\ ret.value.groups[i].chatType = "direct"
          /\ \E r \in participants : r.conversation_jid = ret.value.groups[i].jid
          /\ \E cv \in ConversationsAt(ret.value.groups[i].jid) :
                cv.chat_type = "direct" /\ cv.created_at = 1

====
